---- MODULE Spec2Model ----
(***************************************************************************)
(* Model of the SearXNG-MCP streamable-HTTP server (startHttpServer):      *)
(* the session registry (transports, sessionLastActivity), the periodic    *)
(* cleanup of stale sessions and the per-request dispatcher.               *)
(*                                                                         *)
(* A request handler is an async function: it runs atomically between two  *)
(* awaits.  Its suspension points are the body chunks (for await), the     *)
(* server.connect call and the transport's handleRequest call.  Each       *)
(* action below is one such atomic segment.  The transport itself          *)
(* (StreamableHTTPServerTransport) is a library object: what it does       *)
(* inside handleRequest is a nondeterministic choice among the callbacks   *)
(* the dispatcher handed to it, a normal return and a throw.               *)
(***************************************************************************)
EXTENDS Integers, Sequences, FiniteSets, TLC

(* ------------------------------ bounds --------------------------------- *)
MaxRequests == 2        \* requests handled in one behaviour
MaxChunks == 2          \* body chunks read for one request
MaxAdvances == 2        \* clock advances in one behaviour
MaxCalls == 2           \* calls of get_engines / getCategories in one behaviour
MaxResults == 2         \* results in one answer of the backend

(* ------------------------ program constants ---------------------------- *)
MAX_REQUEST_BODY_SIZE == 1024 * 1024
SESSION_TIMEOUT_MS == 30 * 60 * 1000
CLEANUP_INTERVAL_MS == 60 * 1000

(* ------------------------------ inputs --------------------------------- *)
\* req.url as <<pathname, search>>
Urls == { <<"/mcp", "?x=1">>, <<"/mcp/", "">> }
Methods == { "POST", "GET", "DELETE", "PUT" }
\* what the bytes of a POST body are: an initialize message, another JSON
\* message, or bytes that are not JSON
Bodies == { "init", "other", "notjson" }
ChunkSizes == { 1, MAX_REQUEST_BODY_SIZE }
ClockSteps == { 1, CLEANUP_INTERVAL_MS, SESSION_TIMEOUT_MS }
NoSession == 0          \* no mcp-session-id header (or an empty one)
NoTransport == 0
UnknownId == -1         \* a header value the server never issued

VARIABLES
    transports,           \* Map sessionId -> transport
    sessionLastActivity,  \* Map sessionId -> time of last activity
    bindings,             \* every transport constructed so far
    issued,               \* number of session ids generated so far
    now,                  \* Date.now()
    lastTick,             \* time of the last run of the cleanup callback
    advances,             \* clock advances so far
    requests,             \* the request handlers, by arrival order
    gone,                 \* sessionId -> how its registry entry was removed
    configCache,          \* SearXNGClient.configCache
    configCacheTime,      \* SearXNGClient.configCacheTime
    fetchLog,             \* every GET {baseUrl}/config issued so far
    calls,                \* the calls of get_engines and getCategories
    search,               \* a call of the search tool
    boot                  \* the start of the process: environment and main()

clientVars == << configCache, configCacheTime, fetchLog, calls, search, boot >>

serverVars == << transports, sessionLastActivity, bindings, issued, lastTick,
                 requests, gone >>

vars == << transports, sessionLastActivity, bindings, issued, now, lastTick,
           advances, requests, gone, clientVars >>

registry == << transports, sessionLastActivity >>

\* What a client may send as mcp-session-id: nothing, an id the server has
\* issued (live or not), or a value of its own.  Ids are random UUIDs, so a
\* client does not send an id before the server issues it.
SessionHeaders == { NoSession, UnknownId } \cup (1 .. issued)

(* ------------------------------ helpers -------------------------------- *)
Range(f) == { f[x] : x \in DOMAIN f }
Without(m, keys) == [ k \in DOMAIN m \ keys |-> m[k] ]
MapSet(m, k, v) == [ x \in DOMAIN m \cup {k} |-> IF x = k THEN v ELSE m[x] ]
EmptyMap == [ k \in {} |-> 0 ]

pathname(url) == url[1]

NewRequest ==
    [ pc |-> "idle", method |-> "GET", url |-> <<"/mcp", "">>, hdr |-> NoSession,
      body |-> "other", totalSize |-> 0, buffered |-> 0, nchunks |-> 0,
      parsed |-> FALSE, status |-> 0, error |-> "", target |-> NoTransport,
      created |-> NoTransport, routedAt |-> 0 ]

NewTransport == [ sessionId |-> NoSession, initialized |-> FALSE, open |-> TRUE ]

NoFetch == 0                 \* no backend fetch
NoConfig == [ none |-> TRUE ]
Null == [ fetch |-> NoFetch, config |-> NoConfig ]      \* configCache: null
NoEnvelope == [ pending |-> TRUE ]

\* a call of the get_engines tool or of getCategories, before it is made
NewCall ==
    [ pc |-> "idle", op |-> "get_engines", startedAt |-> 0, observed |-> "",
      seen |-> NoFetch, fetch |-> NoFetch, after |-> {}, snapshot |-> Null,
      value |-> << >>,
      error |-> "", envelope |-> NoEnvelope ]

NoSearch == [ pc |-> "none" ]
NoRequest == [ path |-> "", searchParams |-> << >> ]

\* the search tool called with args, before its handler has run
NewSearch(args) ==
    [ pc |-> "called", args |-> args, request |-> NoRequest, backend |-> "",
      results |-> << >>, error |-> "", envelope |-> NoEnvelope ]
NoBoot == [ pc |-> "none" ]

(* --------------------------- decisions of the code ---------------------- *)
\* mutant of IsEndpoint: a trailing slash is tolerated
IsEndpoint_slash(url) == pathname(url) \in { "/mcp", "/mcp/" }

\* url.pathname !== "/mcp" is answered 404
IsEndpoint(url) == pathname(url) = "/mcp"

\* mutant of TooLarge: a body of exactly the limit is rejected too
TooLarge_ge(totalSize, len) == totalSize >= MAX_REQUEST_BODY_SIZE

\* mutant of TooLarge: the length of the chunk is tested, not the total
TooLarge_chunk(totalSize, len) == len > MAX_REQUEST_BODY_SIZE

\* totalSize > MAX_REQUEST_BODY_SIZE, tested after adding the chunk's length
TooLarge(totalSize, len) == totalSize > MAX_REQUEST_BODY_SIZE

\* JSON.parse(rawBody) returns (the empty string is not JSON)
Parsable(r) == r.buffered > 0 /\ r.body # "notjson"

\* mutant of Resolves: the session header is ignored
Resolves_never(h) == FALSE

\* sessionId && transports.has(sessionId)
Resolves(h) == h # NoSession /\ h \in DOMAIN transports

\* mutant of SessionRequired: DELETE is forgotten
SessionRequired_get(method) == method = "GET"

\* req.method === "GET" || req.method === "DELETE"
SessionRequired(method) == method \in { "GET", "DELETE" }

\* mutant of Expired: the comparison is not strict
Expired_ge(lastActivity, t) == t - lastActivity >= SESSION_TIMEOUT_MS

\* now - lastActivity > SESSION_TIMEOUT_MS
Expired(lastActivity, t) == t - lastActivity > SESSION_TIMEOUT_MS

\* mutant of StaleSessions: the cleanup callback finds no entry to delete
StaleSessions_none(act, t) == {}

\* the entries the cleanup callback deletes at time t
StaleSessions(act, t) == { sid \in DOMAIN act : Expired(act[sid], t) }

\* mutant of ReapTransports: only the timestamps are deleted
ReapTransports_kept(tr, stale) == tr

\* transports.delete(sessionId) for every stale session
ReapTransports(tr, stale) == Without(tr, stale)

\* mutant of BrokenSessions: the catch block deletes every session
BrokenSessions_all(tr, b) == DOMAIN tr

\* mutant of BrokenSessions: the catch block deletes nothing
BrokenSessions_none(tr, b) == {}

\* the keys the catch block deletes: those whose transport is the broken one
BrokenSessions(tr, b) == { sid \in DOMAIN tr : tr[sid] = b }

\* mutant of sessionIdGenerator: the id drawn last is returned again
sessionIdGenerator_repeat == IF issued = 0 THEN 1 ELSE issued

\* sessionIdGenerator: () => randomUUID(), a value never returned before
sessionIdGenerator == issued + 1

\* What the synchronous part of the handler that follows the body does.
Resolution(r) ==
    IF Resolves(r.hdr) THEN "route"
    ELSE IF r.method = "POST" THEN "initiate"
    ELSE IF SessionRequired(r.method) THEN "session required"
    ELSE "method not allowed"

\* mutant of CompletesHandshake: the callback is called for any payload
CompletesHandshake_any(body) == TRUE

\* onsessioninitialized is called by the transport when the payload it is
\* given is the initialize message
CompletesHandshake(body) == body = "init"

\* mutant of onsessionclosed: the callback deletes nothing
onsessionclosed_kept(m, closedSessionId) == m

\* onsessionclosed: transports.delete(closedSessionId) and
\* sessionLastActivity.delete(closedSessionId), each on its own map
onsessionclosed(m, closedSessionId) == Without(m, { closedSessionId })

\* mutant of AfterDelivery: the timestamp is written again when the delivery
\* returns
AfterDelivery_touch(act, h) == MapSet(act, h, now)

\* await transport.handleRequest(...); return: the routed branch writes to
\* neither map after the delivery
AfterDelivery(act, h) == act

\* mutant of Touched: the timestamp of a known session is refreshed before the
\* request is validated
Touched_early(act, h, outcome) ==
    IF h \in DOMAIN act THEN MapSet(act, h, now) ELSE act

\* mutant of Touched: the timestamp is written under whatever id the request
\* presents
Touched_header(act, h, outcome) ==
    IF h # NoSession /\ outcome \in { "route", "initiate" }
    THEN MapSet(act, h, now) ELSE act

\* mutant of Touched: a routed request leaves the timestamp as it was
Touched_never(act, h, outcome) == act

\* sessionLastActivity.set(sessionId, Date.now()) is executed on the route
\* branch only
Touched(act, h, outcome) ==
    IF outcome = "route" THEN MapSet(act, h, now) ELSE act

Respond(r, st, err) == [ r EXCEPT !.pc = "done", !.status = st, !.error = err ]

\* The effect of one synchronous segment of the handler of request i that
\* ends with the given outcome; r is the request as the segment leaves it.
Settle(i, r, outcome) ==
    /\ sessionLastActivity' = Touched(sessionLastActivity, r.hdr, outcome)
    /\ bindings' = IF outcome = "initiate"
                     THEN Append(bindings, NewTransport) ELSE bindings
    /\ requests' = [ requests EXCEPT ![i] =
          CASE outcome = "not found" -> Respond(r, 404, "Not found")
            [] outcome = "read body" -> [ r EXCEPT !.pc = "body" ]
            [] outcome = "too large" -> Respond(r, 413, "Request body too large")
            [] outcome = "invalid json" -> Respond(r, 400, "Invalid JSON")
            [] outcome = "route" ->
                 [ r EXCEPT !.pc = "routed", !.target = transports[r.hdr],
                            !.routedAt = now ]
            [] outcome = "initiate" ->
                 [ r EXCEPT !.pc = "connect", !.target = Len(bindings) + 1,
                            !.created = Len(bindings) + 1 ]
            [] outcome = "session required" -> Respond(r, 400, "Session ID required")
            [] outcome = "method not allowed" -> Respond(r, 405, "Method not allowed") ]
    /\ UNCHANGED << clientVars, transports, issued, now, lastTick, advances, gone >>

(* ------------------------------- Init ---------------------------------- *)
\* startHttpServer has just created its maps and its timer
ServerInit ==
    /\ transports = EmptyMap
    /\ sessionLastActivity = EmptyMap
    /\ bindings = << >>
    /\ issued = 0
    /\ now = 0
    /\ lastTick = 0
    /\ advances = 0
    /\ requests = [ i \in 1 .. MaxRequests |-> NewRequest ]
    /\ gone = EmptyMap

\* new SearXNGClient(SEARXNG_URL): nothing cached, no call made
ClientInit ==
    /\ configCache = Null
    /\ configCacheTime = 0
    /\ fetchLog = << >>
    /\ calls = [ c \in 1 .. MaxCalls |-> NewCall ]

Init ==
    /\ ServerInit
    /\ ClientInit
    /\ search = NoSearch
    /\ boot = NoBoot

(* ------------------------- the request handler ------------------------- *)
\* A request arrives and the handler runs up to its first await: the path
\* check, then for a POST the body loop, otherwise the session resolution.
Arrive(i) ==
    /\ requests[i].pc = "idle"
    /\ IF i = 1 THEN TRUE ELSE requests[i - 1].pc # "idle"
    /\ \E m \in Methods, u \in Urls, h \in SessionHeaders :
       \E b \in IF m = "POST" THEN Bodies ELSE { "none" } :
          LET r == [ NewRequest EXCEPT !.pc = "start", !.method = m, !.url = u,
                                       !.hdr = h, !.body = b ]
          IN  Settle(i, r, IF ~IsEndpoint(u) THEN "not found"
                           ELSE IF m = "POST" THEN "read body"
                           ELSE Resolution(r))

\* for await (const chunk of req): one chunk of the body arrives
ReadChunk(i) ==
    /\ requests[i].pc = "body"
    /\ requests[i].nchunks < MaxChunks
    /\ \E len \in ChunkSizes :
          LET q == requests[i]
              total == q.totalSize + len
              r == [ q EXCEPT !.totalSize = total, !.nchunks = q.nchunks + 1 ]
          IN  IF TooLarge(total, len)
              THEN Settle(i, r, "too large")
              ELSE Settle(i, [ r EXCEPT !.buffered = q.buffered + len ], "read body")

\* the request stream fails while the body is read: the catch answers 400
StreamError(i) ==
    /\ requests[i].pc = "body"
    /\ Settle(i, requests[i], "invalid json")

\* the body ends: Buffer.concat, JSON.parse, then the session resolution
EndBody(i) ==
    /\ requests[i].pc = "body"
    /\ LET r == [ requests[i] EXCEPT !.parsed = TRUE ]
       IN  Settle(i, r, IF Parsable(r) THEN Resolution(r) ELSE "invalid json")

(* ------------------ the new transport of an initiating POST ------------- *)
\* The catch block: delete every entry whose transport is the broken one,
\* then answer 500.
Rollback(i) ==
    LET b == requests[i].created
        broken == BrokenSessions(transports, b)
    IN  /\ transports' = Without(transports, broken)
        /\ sessionLastActivity' = Without(sessionLastActivity, broken)
        /\ gone' = [ sid \in DOMAIN gone \cup broken |->
                       IF sid \in broken THEN "rollback" ELSE gone[sid] ]
        /\ requests' = [ requests EXCEPT ![i] =
                           Respond(@, 500, "Failed to initialize session") ]

\* await server.connect(transport) returns; transport.handleRequest is called
ConnectOk(i) ==
    /\ requests[i].pc = "connect"
    /\ requests' = [ requests EXCEPT ![i].pc = "handle" ]
    /\ UNCHANGED << clientVars, transports, sessionLastActivity, bindings, issued, now,
                    lastTick, advances, gone >>

\* await server.connect(transport) throws
ConnectFail(i) ==
    /\ requests[i].pc = "connect"
    /\ Rollback(i)
    /\ UNCHANGED << clientVars, bindings, issued, now, lastTick, advances >>

\* The transport accepts the initialize message: it draws its session id and
\* calls onsessioninitialized(newSessionId), once in its life.
SessionInitialized(i) ==
    LET b == requests[i].created
        newSessionId == sessionIdGenerator
    IN  /\ requests[i].pc = "handle"
        /\ CompletesHandshake(requests[i].body)
        /\ ~bindings[b].initialized
        /\ bindings' = [ bindings EXCEPT ![b].sessionId = newSessionId,
                                         ![b].initialized = TRUE ]
        /\ issued' = issued + 1
        /\ transports' = MapSet(transports, newSessionId, b)
        /\ sessionLastActivity' = MapSet(sessionLastActivity, newSessionId, now)
        /\ UNCHANGED << clientVars, now, lastTick, advances, requests, gone >>

\* await transport.handleRequest(req, res, requestBody) returns: the
\* transport has written the response
HandleOk(i) ==
    /\ requests[i].pc = "handle"
    /\ requests' = [ requests EXCEPT ![i] = Respond(@, 200, "") ]
    /\ UNCHANGED << clientVars, transports, sessionLastActivity, bindings, issued, now,
                    lastTick, advances, gone >>

\* await transport.handleRequest(req, res, requestBody) throws
HandleFail(i) ==
    /\ requests[i].pc = "handle"
    /\ Rollback(i)
    /\ UNCHANGED << clientVars, bindings, issued, now, lastTick, advances >>

(* ------------------- a request routed to its session ------------------- *)
\* The transport handles a DELETE: it calls onsessionclosed(sessionId), closes
\* itself and answers.
SessionClosed(i) ==
    LET b == requests[i].target
        closedSessionId == bindings[b].sessionId
    IN  /\ requests[i].pc = "routed"
        /\ requests[i].method = "DELETE"
        /\ transports' = onsessionclosed(transports, closedSessionId)
        /\ sessionLastActivity' = onsessionclosed(sessionLastActivity, closedSessionId)
        /\ gone' = IF closedSessionId \in DOMAIN transports
                   THEN MapSet(gone, closedSessionId, "closed") ELSE gone
        /\ bindings' = [ bindings EXCEPT ![b].open = FALSE ]
        /\ requests' = [ requests EXCEPT ![i] = Respond(@, 200, "") ]
        /\ UNCHANGED << clientVars, issued, now, lastTick, advances >>

\* await transport.handleRequest(req, res, requestBody) returns
RoutedOk(i) ==
    /\ requests[i].pc = "routed"
    /\ requests' = [ requests EXCEPT ![i] = Respond(@, 200, "") ]
    /\ sessionLastActivity' = AfterDelivery(sessionLastActivity, requests[i].hdr)
    /\ UNCHANGED << clientVars, transports, bindings, issued, now, lastTick, advances,
                    gone >>

\* await transport.handleRequest(req, res, requestBody) throws: nothing
\* catches it and the dispatcher writes no response
RoutedFail(i) ==
    /\ requests[i].pc = "routed"
    /\ requests' = [ requests EXCEPT ![i] = Respond(@, 0, "unhandled rejection") ]
    /\ UNCHANGED << clientVars, transports, sessionLastActivity, bindings, issued, now,
                    lastTick, advances, gone >>

(* ------------------------ cleanup of stale sessions -------------------- *)
\* The setInterval callback; the timer fires no sooner than one interval
\* after its previous run.
CleanupTick ==
    LET stale == StaleSessions(sessionLastActivity, now)
    IN  /\ now - lastTick >= CLEANUP_INTERVAL_MS
        /\ transports' = ReapTransports(transports, stale)
        /\ sessionLastActivity' = Without(sessionLastActivity, stale)
        /\ gone' = [ sid \in DOMAIN gone \cup stale |->
                       IF sid \in stale THEN "evicted" ELSE gone[sid] ]
        /\ lastTick' = now
        /\ UNCHANGED << clientVars, bindings, issued, now, advances, requests >>

\* time passes
AdvanceClock ==
    /\ advances < MaxAdvances
    /\ \E d \in ClockSteps : now' = now + d
    /\ advances' = advances + 1
    /\ UNCHANGED << clientVars, transports, sessionLastActivity, bindings, issued, lastTick,
                    requests, gone >>

Next ==
    \/ \E i \in 1 .. MaxRequests :
          \/ Arrive(i)
          \/ ReadChunk(i)
          \/ StreamError(i)
          \/ EndBody(i)
          \/ ConnectOk(i)
          \/ ConnectFail(i)
          \/ SessionInitialized(i)
          \/ HandleOk(i)
          \/ HandleFail(i)
          \/ SessionClosed(i)
          \/ RoutedOk(i)
          \/ RoutedFail(i)
    \/ CleanupTick
    \/ AdvanceClock

Spec == Init /\ [][Next]_vars

\* setInterval(..., CLEANUP_INTERVAL_MS): a cleanup that is due is run
SpecLive == Init /\ [][Next]_vars /\ WF_vars(CleanupTick)

(* ======================= the backend client ============================ *)
\* packages/searxng-mcp/src/searxng.ts:54
CONFIG_CACHE_TTL_MS == 5 * 60 * 1000

\* the two programs of the repository: src/index.ts with the client of
\* src/searxng.ts, and packages/searxng-mcp/src/server.ts with plugin.ts and
\* the client of packages/searxng-mcp/src/searxng.ts
Entries == { "src/index.ts", "packages/server.ts" }
Running == { [ pc |-> "running", entry |-> e ] : e \in Entries }

\* only the client of packages/searxng-mcp has configCache; getEngines and
\* getCategories of src/searxng.ts fetch /config on every call
Caching == boot.entry = "packages/server.ts"

Ops == { "get_engines", "getCategories" }
CacheClockSteps == { 1, CONFIG_CACHE_TTL_MS - 1 }
FetchFailures == { "status", "network" }

\* the engines of the /config answers
Bing == [ name |-> "bing", categories |-> << "general" >>, enabled |-> TRUE ]
Reddit ==
    [ name |-> "reddit", categories |-> << "social media", "social" >>,
      enabled |-> FALSE ]
Github == [ name |-> "github", categories |-> << "it", "general" >>, enabled |-> TRUE ]

\* the /config answers of the backend: without the fields, with empty lists,
\* and with engines in several categories
Configs ==
    { [ default_locale |-> "en" ],
      [ engines |-> << >>, categories |-> << >> ],
      [ engines |-> << Reddit, Bing, Github >>,
        categories |-> << "general", "social media", "it", "social" >> ] }

Calls == 1 .. MaxCalls

(* ----------------------------- text ------------------------------------ *)
\* A text is the sequence of its lines: Join is Array.join("\n"), and a part
\* that holds "\n" itself contributes several lines.
\* String.charAt(0).toUpperCase() + slice(1), on the category names used
Capitalize(category) ==
    CASE category = "general" -> "General"
      [] category = "it" -> "It"
      [] category = "social" -> "Social"
      [] category = "social media" -> "Social media"

\* the UTF-16 code units of the category names used
CodeUnits(category) ==
    CASE category = "general" -> << 103, 101, 110, 101, 114, 97, 108 >>
      [] category = "it" -> << 105, 116 >>
      [] category = "social" -> << 115, 111, 99, 105, 97, 108 >>
      [] category = "social media" ->
            << 115, 111, 99, 105, 97, 108, 32, 109, 101, 100, 105, 97 >>

\* Array.sort() without a comparator orders the entries [category, engines]
\* by their strings, "category,[object Object],...": the units of the
\* category, then a comma (44).  Map keys differ, so the order is decided
\* no later than at that comma.
SortKey(category) == CodeUnits(category) \o << 44 >>

RECURSIVE UnitsBefore(_, _)
UnitsBefore(a, b) ==
    IF a = << >> THEN b # << >>
    ELSE IF b = << >> THEN FALSE
    ELSE IF Head(a) # Head(b) THEN Head(a) < Head(b)
    ELSE UnitsBefore(Tail(a), Tail(b))

SortsBefore(a, b) == UnitsBefore(SortKey(a), SortKey(b))

RECURSIVE Insert(_, _)
Insert(sorted, k) ==
    IF sorted = << >> THEN << k >>
    ELSE IF SortsBefore(k, Head(sorted)) THEN << k >> \o sorted
    ELSE << Head(sorted) >> \o Insert(Tail(sorted), k)

RECURSIVE Sorted(_)
Sorted(keys) ==
    IF keys = << >> THEN << >> ELSE Insert(Sorted(Tail(keys)), Head(keys))

RECURSIVE Flatten(_)
Flatten(seqs) ==
    IF seqs = << >> THEN << >> ELSE Head(seqs) \o Flatten(Tail(seqs))

\* the keys of a Map in insertion order: first occurrences only
RECURSIVE Distinct(_)
Distinct(seq) ==
    IF seq = << >> THEN << >>
    ELSE LET front == Distinct(SubSeq(seq, 1, Len(seq) - 1))
             last == seq[Len(seq)]
         IN IF last \in Range(front) THEN front ELSE Append(front, last)

(* -------------------------- tool results ------------------------------- *)
\* createErrorResponse: index.ts:46-57, plugin.ts (part_002:20-31)
createErrorResponse(message, context) ==
    [ content |-> << [ type |-> "text",
                       text |-> << "Error " \o context \o ": " \o message >> ] >>,
      isError |-> TRUE ]

\* the result of a handler that did not catch: no isError field
TextResult(text) == [ content |-> << [ type |-> "text", text |-> text ] >> ]

\* the line of one engine: index.ts:179-180 prints a mark (U+2713 enabled,
\* U+2717 disabled), plugin.ts (part_002:62) the name alone
EngineLine(entry, engine) ==
    IF entry = "src/index.ts"
    THEN "  " \o (IF engine.enabled THEN "U+2713" ELSE "U+2717") \o " " \o engine.name
    ELSE "  " \o engine.name

\* formatEngines: index.ts:159-185, plugin.ts (part_002:43-67)
formatEngines(entry, engines) ==
    IF Len(engines) = 0 THEN << "No engines available." >>
    ELSE LET pairs == Flatten([ i \in 1 .. Len(engines) |->
                        [ j \in 1 .. Len(engines[i].categories) |->
                            << engines[i].categories[j], engines[i] >> ] ])
             byCategory(c) == SelectSeq(pairs, LAMBDA p : p[1] = c)
             keys == Sorted(Distinct([ i \in 1 .. Len(pairs) |-> pairs[i][1] ]))
             section(c) ==
                 << "", "## " \o Capitalize(c) >> \o
                 [ i \in 1 .. Len(byCategory(c)) |->
                     EngineLine(entry, byCategory(c)[i][2]) ]
         IN << "Available engines (" \o ToString(Len(engines)) \o " total):" >>
            \o Flatten([ i \in 1 .. Len(keys) |-> section(keys[i]) ])

\* config.engines || [] and config.categories || []
FieldOrEmpty(config, field) ==
    IF field \in DOMAIN config THEN config[field] ELSE << >>

(* ------------------------ the configuration cache ---------------------- *)
\* fetchConfig, packages searxng.ts:106-109: the cached snapshot is served
\* when there is one and it is younger than the TTL
CacheFresh_never(cache, cacheTime, t) == FALSE

CacheFresh_noexpiry(cache, cacheTime, t) == cache # Null

CacheFresh(cache, cacheTime, t) ==
    cache # Null /\ t - cacheTime < CONFIG_CACHE_TTL_MS

\* packages searxng.ts:126: this.configCache = config
CacheAfterFetch_kept(cache, snapshot) == IF cache = Null THEN snapshot ELSE cache

CacheAfterFetch(cache, snapshot) == snapshot

\* mutant of CacheTimeAfterFetch: the clock is read again when the answer is
\* stored
CacheTimeAfterFetch_stored(startedAt, t) == t

\* packages searxng.ts:127: this.configCacheTime = now, the value read at
\* line 106 when the call started; t is the time of the store
CacheTimeAfterFetch(startedAt, t) == startedAt

\* mutant of CacheAfterFailure: a failed fetch empties the slot
CacheAfterFailure_cleared(cache) == Null

\* packages searxng.ts:113-123: a rejected fetch or the throw for a non-2xx
\* status leaves fetchConfig before the assignments of 126-127
CacheAfterFailure(cache) == cache

\* what the call sees of the cache at its start
Observed(cache, cacheTime, t) ==
    IF ~Caching THEN "uncached"
    ELSE IF CacheFresh(cache, cacheTime, t) THEN "fresh"
    ELSE IF cache = Null THEN "absent" ELSE "expired"

\* the calls whose configuration had been returned to them
Served == { c \in Calls : calls[c].snapshot # Null }

\* getEngines / getCategories return the field of the snapshot; the
\* get_engines handler formats the engines (index.ts:111-123,
\* part_002:142-155)
Deliver(call, snapshot) ==
    IF call.op = "getCategories"
    THEN [ call EXCEPT !.pc = "returned", !.snapshot = snapshot,
                       !.value = FieldOrEmpty(snapshot.config, "categories") ]
    ELSE [ call EXCEPT !.pc = "returned", !.snapshot = snapshot,
                       !.value = FieldOrEmpty(snapshot.config, "engines"),
                       !.envelope = TextResult(formatEngines(boot.entry,
                                       FieldOrEmpty(snapshot.config, "engines"))) ]

\* the Error of a failed fetch: thrown at packages searxng.ts:121-123
\* (src/searxng.ts:127-129), or the rejection of fetch itself
FetchError(kind) ==
    IF kind = "status"
    THEN "SearXNG config fetch failed: 500 Internal Server Error"
    ELSE "fetch failed"

\* the catch of a handler returns the error as the result of the tool:
\* index.ts:97-99 and 124-126, part_002:105-107 and 155-157
Catch_rethrow(run, message, context) ==
    [ run EXCEPT !.pc = "thrown", !.error = message ]

Catch(run, message, context) ==
    [ run EXCEPT !.pc = "returned", !.error = message,
                 !.envelope = createErrorResponse(message, context) ]

\* getCategories has no handler and throws to its caller
Throw(call, message) ==
    IF call.op = "getCategories"
    THEN [ call EXCEPT !.pc = "thrown", !.error = message ]
    ELSE Catch(call, message, "fetching engines")

\* a call starts: fetchConfig reads the clock and the cache, and either
\* returns the cached snapshot or issues GET /config
CallStart(c) ==
    /\ boot.pc = "running"
    /\ calls[c].pc = "idle"
    /\ IF c = 1 THEN TRUE ELSE calls[c - 1].pc # "idle"
    /\ \E op \in Ops :
         LET started == [ calls[c] EXCEPT
                            !.op = op, !.startedAt = now, !.after = Served,
                            !.seen = configCache.fetch,
                            !.observed = Observed(configCache, configCacheTime, now) ]
         IN IF started.observed = "fresh"
            THEN /\ calls' = [ calls EXCEPT ![c] = Deliver(started, configCache) ]
                 /\ UNCHANGED fetchLog
            ELSE /\ fetchLog' = Append(fetchLog,
                                  [ issuedAt |-> now, by |-> c, outcome |-> "pending" ])
                 /\ calls' = [ calls EXCEPT ![c] =
                                 [ started EXCEPT !.pc = "fetching",
                                                  !.fetch = Len(fetchLog) + 1 ] ]
    /\ UNCHANGED << serverVars, now, advances, configCache, configCacheTime,
                    search, boot >>

\* the backend answers 2xx with a configuration: packages searxng.ts:125-128
\* store it with the time read at the start of the call
FetchOk(c) ==
    /\ calls[c].pc = "fetching"
    /\ \E config \in Configs :
         LET snapshot == [ fetch |-> calls[c].fetch, config |-> config ]
         IN /\ calls' = [ calls EXCEPT ![c] = Deliver(calls[c], snapshot) ]
            /\ IF Caching
               THEN /\ configCache' = CacheAfterFetch(configCache, snapshot)
                    /\ configCacheTime' = CacheTimeAfterFetch(calls[c].startedAt, now)
               ELSE UNCHANGED << configCache, configCacheTime >>
    /\ fetchLog' = [ fetchLog EXCEPT ![calls[c].fetch].outcome = "ok" ]
    /\ UNCHANGED << serverVars, now, advances, search, boot >>

\* the fetch fails: a non-2xx status or a network error
FetchFail(c) ==
    /\ calls[c].pc = "fetching"
    /\ \E kind \in FetchFailures :
         /\ calls' = [ calls EXCEPT ![c] = Throw(calls[c], FetchError(kind)) ]
         /\ fetchLog' = [ fetchLog EXCEPT ![calls[c].fetch].outcome = kind ]
    /\ configCache' = CacheAfterFailure(configCache)
    /\ UNCHANGED << serverVars, now, advances, configCacheTime, search, boot >>

\* time passes between the steps of the calls
Elapse ==
    /\ advances < MaxAdvances
    /\ \E d \in CacheClockSteps : now' = now + d
    /\ advances' = advances + 1
    /\ UNCHANGED << serverVars, clientVars >>

InitCache ==
    /\ ServerInit
    /\ ClientInit
    /\ search = NoSearch
    /\ boot \in Running

NextCache ==
    \/ \E c \in Calls : CallStart(c)
    \/ \E c \in Calls : FetchOk(c)
    \/ \E c \in Calls : FetchFail(c)
    \/ Elapse

SpecCache == InitCache /\ [][NextCache]_vars

(* ========================= the search tool ============================= *)
\* the arguments the input schema accepts (index.ts:65-73, part_002:72-80):
\* an optional parameter is a field of the record or is not there
Optional(field, values) == { << >> } \cup { field :> v : v \in values }

SearchParams ==
    { [ query |-> "news" ] @@ c @@ e @@ l @@ p @@ t @@ f :
        c \in Optional("categories", { << >>, << "news", "it" >> }),
        e \in Optional("engines", { << >>, << "bing" >> }),
        l \in Optional("language", { "", "en" }),
        p \in Optional("pageno", { 0, 2 }),
        t \in Optional("time_range", { "day" }),
        f \in Optional("safesearch", { 0, 2 }) }

\* the arguments of the search whose handler runs beside get_engines
ToolParams ==
    { [ query |-> "news", categories |-> << "news", "it" >>,
        engines |-> << "bing" >>, language |-> "en", pageno |-> 2,
        time_range |-> "day", safesearch |-> 0 ] }

Has(record, field) == field \in DOMAIN record

\* Array.join(",") of strings
RECURSIVE JoinComma(_)
JoinComma(list) ==
    IF list = << >> THEN ""
    ELSE IF Len(list) = 1 THEN list[1]
    ELSE list[1] \o "," \o JoinComma(Tail(list))

\* the conditions of SearXNGClient.search on its optional parameters:
\* src/searxng.ts:73-95, packages searxng.ts:65-87
NonEmptyList(params, field) == Has(params, field) /\ Len(params[field]) > 0

\* if (params.language), if (params.pageno), if (params.time_range): a
\* string is truthy unless "", a number unless 0
Truthy(params, field) ==
    Has(params, field) /\ params[field] # (IF field = "pageno" THEN 0 ELSE "")

Defined(params, field) == Has(params, field)

\* url.searchParams after the calls of set, in their order
SearchQuery(params) ==
    << << "q", params.query >>, << "format", "json" >> >>
    \o (IF NonEmptyList(params, "categories")
        THEN << << "categories", JoinComma(params.categories) >> >> ELSE << >>)
    \o (IF NonEmptyList(params, "engines")
        THEN << << "engines", JoinComma(params.engines) >> >> ELSE << >>)
    \o (IF Truthy(params, "language")
        THEN << << "language", params.language >> >> ELSE << >>)
    \o (IF Truthy(params, "pageno")
        THEN << << "pageno", ToString(params.pageno) >> >> ELSE << >>)
    \o (IF Truthy(params, "time_range")
        THEN << << "time_range", params.time_range >> >> ELSE << >>)
    \o (IF Defined(params, "safesearch")
        THEN << << "safesearch", ToString(params.safesearch) >> >> ELSE << >>)

(* ------------------------- the backend's results ----------------------- *)
OptionalFields == { "content", "engine", "publishedDate" }

\* the k-th result of the backend's index, with the optional fields it has
Result(k, fields) ==
    [ title |-> "T" \o ToString(k), url |-> "http://x/" \o ToString(k) ]
    @@ [ f \in fields |-> f \o ToString(k) ]

\* the backend orders its answer as it likes: by rising or by falling k
Orders(n) == { [ i \in 1 .. n |-> i ], [ i \in 1 .. n |-> n + 1 - i ] }

\* answers of n results; the first has any of the optional fields, the
\* others all of them or none
ResultListsOf(n) ==
    { [ i \in 1 .. n |-> Result(order[i], IF i = 1 THEN first ELSE rest[i]) ] :
        order \in Orders(n), first \in SUBSET OptionalFields,
        rest \in [ 1 .. n -> { {}, OptionalFields } ] }

ResultLists == UNION { ResultListsOf(n) : n \in 0 .. MaxResults }

\* the JSON of a 2xx answer: data.results may be missing
SearchResponses ==
    { [ query |-> "news" ] } \cup { [ results |-> list ] : list \in ResultLists }

(* ------------------------------ strings -------------------------------- *)
\* A string with line breaks is the sequence of its lines: "\n" is two empty
\* lines, and appending joins the last line of the one to the first of the
\* other.
Cat(a, b) ==
    SubSeq(a, 1, Len(a) - 1) \o << a[Len(a)] \o b[1] >> \o Tail(b)

Line(text) == << text >>
Newline == << "", "" >>

RECURSIVE CatAll(_)
CatAll(parts) ==
    IF parts = << >> THEN Line("") ELSE Cat(Head(parts), CatAll(Tail(parts)))

\* Array.join(separator) of strings
RECURSIVE Join(_, _)
Join(parts, separator) ==
    IF parts = << >> THEN Line("")
    ELSE IF Len(parts) = 1 THEN parts[1]
    ELSE CatAll(<< parts[1], separator, Join(Tail(parts), separator) >>)

\* `${value}` of a field that may be missing
Interpolated(result, field) ==
    IF Has(result, field) THEN result[field] ELSE "undefined"

\* formatSearchResults of index.ts:130-157
SearchResultLines(result, index) ==
    Join(<< Line(ToString(index + 1) \o ". " \o result.title),
            Line("   URL: " \o result.url) >>
         \o (IF Truthy(result, "content")
             THEN << Line("   " \o result.content) >> ELSE << >>)
         \o (IF Truthy(result, "engine")
             THEN << Line("   Engine: " \o result.engine) >> ELSE << >>)
         \o (IF Truthy(result, "publishedDate")
             THEN << Line("   Published: " \o result.publishedDate) >> ELSE << >>),
         Newline)

\* formatSearchResults of plugin.ts (part_002:33-41): a template per result,
\* and the array of them appended to a string, which joins them by ","
SearchResultElement(result, index) ==
    << "",
       "  <result index=\"" \o ToString(index + 1)
          \o "\" url=\"" \o Interpolated(result, "url")
          \o "\" engine=\"" \o Interpolated(result, "engine")
          \o "\" date=\"" \o Interpolated(result, "publishedDate") \o "\">",
       "    <result.title>" \o Interpolated(result, "title") \o "</result.title>",
       "    " \o Interpolated(result, "content"),
       "  </result>",
       "" >>

formatSearchResults_plugin(entry, results) ==
    CatAll(<< Line("<results>"), Newline,
              Join([ i \in 1 .. Len(results) |->
                       SearchResultElement(results[i], i - 1) ], Line(",")),
              Newline, Line("</results>") >>)

formatSearchResults(entry, results) ==
    IF entry = "src/index.ts"
    THEN IF Len(results) = 0 THEN Line("No results found.")
         ELSE CatAll(<< Line("Found " \o ToString(Len(results)) \o " results:"),
                        Newline, Newline,
                        Join([ i \in 1 .. Len(results) |->
                                 SearchResultLines(results[i], i - 1) ],
                             Cat(Newline, Newline)) >>)
    ELSE formatSearchResults_plugin(entry, results)

\* the Error of a failed search: src/searxng.ts:105-107, or the rejection
\* of fetch
SearchError(kind) ==
    IF kind = "status"
    THEN "SearXNG search failed: 500 Internal Server Error"
    ELSE "fetch failed"

(* ------------------------- the search handler -------------------------- *)
\* the handler calls searxngClient.search, which builds the URL and issues
\* the GET: index.ts:75-85, src/searxng.ts:65-103
SearchRequest ==
    /\ boot.pc = "running"
    /\ search.pc = "called"
    /\ search' = [ search EXCEPT
                     !.pc = "fetching",
                     !.request = [ path |-> "/search",
                                   searchParams |-> SearchQuery(search.args) ] ]
    /\ UNCHANGED << serverVars, now, advances, configCache, configCacheTime,
                    fetchLog, calls, boot >>

\* a 2xx answer: the results, or [] when the field is missing, are
\* formatted into the text of the result (index.ts:87-96)
SearchOk ==
    /\ search.pc = "fetching"
    /\ \E response \in SearchResponses :
         LET results == FieldOrEmpty(response, "results")
         IN search' = [ search EXCEPT
                          !.pc = "returned", !.backend = "ok", !.results = results,
                          !.envelope =
                              TextResult(formatSearchResults(boot.entry, results)) ]
    /\ UNCHANGED << serverVars, now, advances, configCache, configCacheTime,
                    fetchLog, calls, boot >>

\* a failure of the backend is caught by the handler: index.ts:97-99
SearchFail ==
    /\ search.pc = "fetching"
    /\ \E kind \in FetchFailures :
         search' = Catch([ search EXCEPT !.backend = kind ],
                         SearchError(kind), "performing search")
    /\ UNCHANGED << serverVars, now, advances, configCache, configCacheTime,
                    fetchLog, calls, boot >>

InitSearch ==
    /\ ServerInit
    /\ ClientInit
    /\ boot \in Running
    /\ search \in { NewSearch(args) : args \in SearchParams }

NextSearch ==
    \/ SearchRequest
    \/ SearchOk
    \/ SearchFail

SpecSearch == InitSearch /\ [][NextSearch]_vars

\* both tools of one server
InitTools ==
    /\ ServerInit
    /\ ClientInit
    /\ boot \in Running
    /\ search \in { NewSearch(args) : args \in ToolParams }

NextTools ==
    \/ SearchRequest
    \/ SearchOk
    \/ SearchFail
    \/ \E c \in Calls : CallStart(c)
    \/ \E c \in Calls : FetchOk(c)
    \/ \E c \in Calls : FetchFail(c)

SpecTools == InitTools /\ [][NextTools]_vars

(* ================= the tools without a bound client ==================== *)
\* registerSearchTool(server) and registerGetEnginesTool(server), part_002:
\* 120-133 and 170-180: the schema gains engineUrl and the handler builds a
\* client of its own for every call.
StatelessEntry == "plugin.ts"

\* A URL string is the sequence of its pieces, so that the slashes at its end
\* can be told apart; << >> is the empty string.
EngineUrls ==
    { << >>, << "https://searx.example" >>, << "https://searx.example", "/" >>,
      << "https://searx.example", "/", "/" >>,
      << "https://searx.example", "/", "searxng" >>,
      << "https://searx.example", "/", "searxng", "/" >> }

\* the arguments of a call: engineUrl is there or is not
StatelessArgs ==
    { params @@ u : params \in ToolParams, u \in Optional("engineUrl", EngineUrls) }

\* baseUrl.replace(/\/+$/, ""), packages searxng.ts:57
RECURSIVE StripTrailingSlashes(_)
StripTrailingSlashes(url) ==
    IF url # << >> /\ url[Len(url)] = "/"
    THEN StripTrailingSlashes(SubSeq(url, 1, Len(url) - 1))
    ELSE url

\* new SearXNGClient(baseUrl), packages searxng.ts:52-58
NewClient(baseUrl) ==
    [ baseUrl |-> StripTrailingSlashes(baseUrl), configCache |-> Null,
      configCacheTime |-> 0 ]

NoClient == [ baseUrl |-> << >>, configCache |-> Null, configCacheTime |-> 0 ]

\* mutant of ClientFor: the client an earlier call built for the same base
\* URL is used again
ClientFor_reused(cs, engineUrl) ==
    LET same == { d \in DOMAIN cs :
                    /\ cs[d].pc # "idle"
                    /\ cs[d].client.baseUrl = StripTrailingSlashes(engineUrl)
                    /\ cs[d].client.configCache # Null }
    IN  IF same = {} THEN NewClient(engineUrl)
        ELSE cs[CHOOSE d \in same : TRUE].client

\* part_002:131 and 179: new SearXNGClient(args.engineUrl), whatever clients
\* the calls cs so far have built
ClientFor(cs, engineUrl) == NewClient(engineUrl)

\* !args.engineUrl: undefined or the empty string
NoEngineUrl(args) == ~ Has(args, "engineUrl") \/ args.engineUrl = << >>

\* new URL(path, baseUrl) throws for the empty base
ValidBase(baseUrl) == baseUrl # << >>

StatelessOps == { "search", "get_engines" }

NewToolCall == NewCall @@ [ args |-> << >>, client |-> NoClient, request |-> NoRequest ]

\* new URL(path, baseUrl), packages searxng.ts:61 and 111: a reference that
\* starts with "/" replaces the whole path of the base, so the result is the
\* origin of the base followed by the reference
ResolveUrl(path, baseUrl) == << Head(baseUrl), path >>

\* the request a client sends: the path on its base URL
BackendRequest(c, client, path) ==
    [ issuedAt |-> now, by |-> c, outcome |-> "pending", base |-> client.baseUrl,
      path |-> path, url |-> ResolveUrl(path, client.baseUrl) ]

\* The handler of a call runs up to its first await. search (part_002:
\* 126-132) answers an error when engineUrl is falsy and otherwise builds the
\* client and calls searchToolHandlerBase; get_engines (part_002:179) builds
\* the client at once, and the constructor throws on undefined.
StatelessCall(c) ==
    /\ boot.entry = StatelessEntry
    /\ calls[c].pc = "idle"
    /\ IF c = 1 THEN TRUE ELSE calls[c - 1].pc # "idle"
    /\ \E op \in StatelessOps, args \in StatelessArgs :
         LET call == [ calls[c] EXCEPT !.op = op, !.args = args, !.startedAt = now ]
             client == ClientFor(calls, args.engineUrl)
             built == [ call EXCEPT !.client = client ]
             path == IF op = "search" THEN "/search" ELSE "/config"
             context == IF op = "search" THEN "performing search"
                        ELSE "fetching engines"
             checked == [ built EXCEPT !.observed =
                            IF CacheFresh(client.configCache,
                                          client.configCacheTime, now)
                            THEN "fresh"
                            ELSE IF client.configCache = Null THEN "absent"
                            ELSE "expired" ]
         IN  IF op = "search" /\ NoEngineUrl(args)
             THEN /\ calls' = [ calls EXCEPT ![c] =
                                  Catch(call, "engineUrl is required",
                                        "initializing SearXNG client") ]
                  /\ UNCHANGED fetchLog
             ELSE IF ~ Has(args, "engineUrl")
             THEN /\ calls' = [ calls EXCEPT ![c] =
                      [ call EXCEPT
                          !.pc = "thrown",
                          !.error = "Cannot read properties of undefined (reading 'replace')" ] ]
                  /\ UNCHANGED fetchLog
             ELSE IF op = "get_engines" /\ checked.observed = "fresh"
             THEN /\ calls' = [ calls EXCEPT ![c] =
                                  Deliver(checked, client.configCache) ]
                  /\ UNCHANGED fetchLog
             ELSE IF ~ ValidBase(client.baseUrl)
             THEN /\ calls' = [ calls EXCEPT ![c] =
                                  Catch(IF op = "search" THEN built ELSE checked,
                                        "Invalid URL", context) ]
                  /\ UNCHANGED fetchLog
             ELSE /\ fetchLog' = Append(fetchLog, BackendRequest(c, client, path))
                  /\ calls' = [ calls EXCEPT ![c] =
                        [ (IF op = "search" THEN built ELSE checked) EXCEPT
                            !.pc = "fetching", !.fetch = Len(fetchLog) + 1,
                            !.request =
                               IF op = "search"
                               THEN [ path |-> path,
                                      searchParams |-> SearchQuery(args) ]
                               ELSE NoRequest ] ]
    /\ UNCHANGED << serverVars, now, advances, configCache, configCacheTime,
                    search, boot >>

\* the answers to a search of a call: no results field, or one result
StatelessResponses ==
    { r \in SearchResponses : Len(FieldOrEmpty(r, "results")) <= 1 }

\* the backend answers 2xx: the client of the call stores the configuration
\* (packages searxng.ts:125-128) or returns the results (98-102), and the
\* handler formats the text
StatelessFetchOk(c) ==
    /\ boot.entry = StatelessEntry
    /\ calls[c].pc = "fetching"
    /\ IF calls[c].op = "get_engines"
       THEN \E config \in Configs :
              LET snapshot == [ fetch |-> calls[c].fetch, config |-> config ]
                  stored == [ calls[c] EXCEPT
                                !.client.configCache =
                                    CacheAfterFetch(@, snapshot),
                                !.client.configCacheTime =
                                    CacheTimeAfterFetch(calls[c].startedAt, now) ]
              IN  calls' = [ calls EXCEPT ![c] = Deliver(stored, snapshot) ]
       ELSE \E response \in StatelessResponses :
              LET results == FieldOrEmpty(response, "results")
              IN  calls' = [ calls EXCEPT ![c] =
                    [ calls[c] EXCEPT
                        !.pc = "returned", !.value = results,
                        !.envelope =
                            TextResult(formatSearchResults(boot.entry, results)) ] ]
    /\ fetchLog' = [ fetchLog EXCEPT ![calls[c].fetch].outcome = "ok" ]
    /\ UNCHANGED << serverVars, now, advances, configCache, configCacheTime,
                    search, boot >>

\* the backend fails: the catch of the handler base returns the error
\* (part_002:105-107 and 155-157)
StatelessFetchFail(c) ==
    /\ boot.entry = StatelessEntry
    /\ calls[c].pc = "fetching"
    /\ \E kind \in FetchFailures :
         /\ calls' = [ calls EXCEPT ![c] =
               IF calls[c].op = "search"
               THEN Catch(calls[c], SearchError(kind), "performing search")
               ELSE Catch(calls[c], FetchError(kind), "fetching engines") ]
         /\ fetchLog' = [ fetchLog EXCEPT ![calls[c].fetch].outcome = kind ]
    /\ UNCHANGED << serverVars, now, advances, configCache, configCacheTime,
                    search, boot >>

InitStateless ==
    /\ ServerInit
    /\ configCache = Null
    /\ configCacheTime = 0
    /\ fetchLog = << >>
    /\ calls = [ c \in 1 .. MaxCalls |-> NewToolCall ]
    /\ search = NoSearch
    /\ boot = [ pc |-> "running", entry |-> StatelessEntry ]

NextStateless ==
    \/ \E c \in Calls : StatelessCall(c)
    \/ \E c \in Calls : StatelessFetchOk(c)
    \/ \E c \in Calls : StatelessFetchFail(c)
    \/ Elapse

SpecStateless == InitStateless /\ [][NextStateless]_vars

(* ========================= the start of the process ==================== *)
\* index.ts:12, server.ts:9, part_001:13
DEFAULT_SEARXNG_URL == "http://localhost:8080"

\* the three entry modules of the repository
BootEntries == Entries \cup { "unnamed/part_001" }

\* values of the environment variable SEARXNG_URL, and what new URL makes
\* of them: a scheme is lower-cased, "localhost:8080" has the scheme
\* "localhost:", and a string without a scheme is rejected
EnvUrls ==
    { "", "http://searx.local/", "https://searx.local", "HTTP://searx.local",
      "ftp://searx.local", "localhost:8080", "searx local" }

ParseUrl(text) ==
    CASE text = "http://localhost:8080" -> [ ok |-> TRUE, protocol |-> "http:" ]
      [] text = "http://searx.local/" -> [ ok |-> TRUE, protocol |-> "http:" ]
      [] text = "https://searx.local" -> [ ok |-> TRUE, protocol |-> "https:" ]
      [] text = "HTTP://searx.local" -> [ ok |-> TRUE, protocol |-> "http:" ]
      [] text = "ftp://searx.local" -> [ ok |-> TRUE, protocol |-> "ftp:" ]
      [] text = "localhost:8080" -> [ ok |-> TRUE, protocol |-> "localhost:" ]
      [] OTHER -> [ ok |-> FALSE, protocol |-> "" ]

EnvModes == { "", "http", "stdio", "STDIO" }

\* process.env: a variable is a field of the record or is not set
Environments ==
    { u @@ m : u \in Optional("SEARXNG_URL", EnvUrls),
               m \in Optional("TRANSPORT_MODE", EnvModes) }

\* process.env.X: << >> is undefined, << text >> a string
Env(env, name) == IF Has(env, name) THEN << env[name] >> ELSE << >>

\* value || fallback
OrElse(value, fallback) ==
    IF value = << >> \/ value = << "" >> THEN fallback ELSE value[1]

\* getValidatedSearxngUrl: index.ts:17-30, server.ts:14-27, part_001:18-31
getValidatedSearxngUrl_unchecked(envUrl, fallback) ==
    LET urlToTest == OrElse(envUrl, fallback)
    IN IF ParseUrl(urlToTest).ok
       THEN [ threw |-> FALSE, value |-> urlToTest ]
       ELSE [ threw |-> FALSE, value |-> fallback ]

getValidatedSearxngUrl(envUrl, fallback) ==
    LET urlToTest == OrElse(envUrl, fallback)
        urlObj == ParseUrl(urlToTest)
    IN IF ~urlObj.ok
       THEN [ threw |-> FALSE, value |-> fallback ]      \* catch
       ELSE IF urlObj.protocol # "http:" /\ urlObj.protocol # "https:"
       THEN [ threw |-> FALSE, value |-> fallback ]
       ELSE [ threw |-> FALSE, value |-> urlToTest ]

\* the default of TRANSPORT_MODE: "http" at index.ts:34 and server.ts:31,
\* "stdio" at part_001:35
DefaultMode(entry) == IF entry = "unnamed/part_001" THEN "stdio" ELSE "http"

NewProcess(entry, env) ==
    [ pc |-> "start", entry |-> entry, env |-> env, SEARXNG_URL |-> "",
      TRANSPORT_MODE |-> "", transport |-> "" ]

\* the module is evaluated: its constants are read from the environment
\* (index.ts:32-37)
LoadModule ==
    /\ boot.pc = "start"
    /\ LET validated == getValidatedSearxngUrl(Env(boot.env, "SEARXNG_URL"),
                                               DEFAULT_SEARXNG_URL)
       IN boot' = IF validated.threw
                  THEN [ boot EXCEPT !.pc = "crashed" ]
                  ELSE [ boot EXCEPT
                           !.pc = "loaded",
                           !.SEARXNG_URL = validated.value,
                           !.TRANSPORT_MODE =
                               OrElse(Env(boot.env, "TRANSPORT_MODE"),
                                      DefaultMode(boot.entry)) ]
    /\ UNCHANGED << serverVars, now, advances, configCache, configCacheTime,
                    fetchLog, calls, search >>

\* main: index.ts:316-322, server.ts:154-165, part_001:178-184
Main ==
    /\ boot.pc = "loaded"
    /\ boot' = [ boot EXCEPT
                   !.pc = "running",
                   !.transport = IF boot.TRANSPORT_MODE = "stdio"
                                 THEN "stdio" ELSE "http" ]
    /\ UNCHANGED << serverVars, now, advances, configCache, configCacheTime,
                    fetchLog, calls, search >>

InitBoot ==
    /\ ServerInit
    /\ ClientInit
    /\ search = NoSearch
    /\ boot \in { NewProcess(entry, env) :
                    entry \in BootEntries, env \in Environments }

NextBoot ==
    \/ LoadModule
    \/ Main

SpecBoot == InitBoot /\ [][NextBoot]_vars

(* ======================= properties of the server ====================== *)
Slots == 1 .. MaxRequests
Transports == 1 .. Len(bindings)

\* In this step the handler of request i ran its session resolution (it got
\* past the path check and, for a POST, past the body loop and JSON.parse).
ResolutionStep(i) ==
    /\ requests[i].pc \in { "idle", "body" }
    /\ requests'[i].pc \notin { "idle", "body" }
    /\ requests'[i].error \notin { "Not found", "Request body too large", "Invalid JSON" }

Evicted(sid) == sid \in DOMAIN gone /\ gone[sid] = "evicted"

\* the request was handed to the transport of an existing session
RoutedToSession(r) == r.target # NoTransport /\ r.created = NoTransport

\* C1: once a transport has issued its session id, the id is registered for
\* that transport until it is closed, evicted or rolled back, and a request
\* on the endpoint bearing a registered id is handed to the transport that the
\* initiating POST created, no new transport being constructed.
SessionReuse ==
    /\ [](\A b \in Transports :
            (bindings[b].initialized /\ bindings[b].sessionId \notin DOMAIN gone)
            => /\ bindings[b].sessionId \in DOMAIN transports
               /\ transports[bindings[b].sessionId] = b)
    /\ [][\A i \in Slots :
            (ResolutionStep(i) /\ requests'[i].hdr \in DOMAIN transports)
            => LET r == requests'[i]
               IN  /\ r.pc = "routed"
                   /\ r.target = transports[r.hdr]
                   /\ bindings[r.target].sessionId = r.hdr
                   /\ \E j \in Slots : /\ requests[j].created = r.target
                                       /\ requests[j].method = "POST"
                                       /\ requests[j].body = "init"
                   /\ r.created = NoTransport
                   /\ bindings' = bindings]_vars

\* C1 witness: a request was routed to the session another request created
SessionReuseWitness ==
    \E i, j \in Slots :
        /\ i # j
        /\ RoutedToSession(requests[i])
        /\ requests[j].created = requests[i].target
        /\ requests[i].hdr = bindings[requests[i].target].sessionId

\* C2: an id the cleanup has evicted is never in the registry again, and a
\* request bearing it is not routed to a session: the registry is left as it
\* is, a POST gets a transport of its own, a GET or DELETE is answered 400.
StaleIdNotFound ==
    /\ [](\A sid \in DOMAIN gone :
            gone[sid] = "evicted"
            => sid \notin DOMAIN transports /\ sid \notin DOMAIN sessionLastActivity)
    /\ [][\A i \in Slots :
            (ResolutionStep(i) /\ Evicted(requests'[i].hdr))
            => LET r == requests'[i]
               IN  /\ r.pc # "routed"
                   /\ \A b \in Transports :
                        bindings[b].sessionId = r.hdr => r.target # b
                   /\ transports' = transports
                   /\ sessionLastActivity' = sessionLastActivity
                   /\ r.method = "POST" => r.created = Len(bindings) + 1
                   /\ r.method \in { "GET", "DELETE" } => r.status = 400]_vars

\* C2 witness: a request bearing an evicted id went through the resolution
StaleIdNotFoundWitness ==
    \E i \in Slots :
        /\ Evicted(requests[i].hdr)
        /\ \/ requests[i].created # NoTransport
           \/ requests[i].error = "Session ID required"

\* C3: once the dispatcher has answered 500, no registry entry maps to the
\* transport of that request and the id that transport issued has no entry
\* in either map.
RollbackLeavesNoEntry ==
    \A i \in Slots :
        requests[i].status = 500
        => LET b == requests[i].created
           IN  /\ b \notin Range(transports)
               /\ bindings[b].sessionId \notin DOMAIN transports
               /\ bindings[b].sessionId \notin DOMAIN sessionLastActivity

\* C3 witness: a 500 after onsessioninitialized had fired
RollbackLeavesNoEntryWitness ==
    \E i \in Slots :
        /\ requests[i].status = 500
        /\ bindings[requests[i].created].initialized

\* C4: no two transports hold the same session id, an entry of the registry
\* maps an id to the transport that issued it, and an id whose entry was
\* removed (close, eviction, rollback) has no entry.
OneBindingPerSession ==
    /\ \A a, b \in Transports :
          (bindings[a].initialized /\ bindings[b].initialized
             /\ bindings[a].sessionId = bindings[b].sessionId) => a = b
    /\ \A sid \in DOMAIN transports :
          /\ transports[sid] \in Transports
          /\ bindings[transports[sid]].sessionId = sid
    /\ \A sid \in DOMAIN gone : sid \notin DOMAIN transports

\* C4 witness: a session is registered after another one was removed
OneBindingPerSessionWitness ==
    /\ DOMAIN gone # {}
    /\ DOMAIN transports # {}

\* C5: a run of the cleanup callback at time now leaves no entry with
\* now - lastActivity > SESSION_TIMEOUT_MS and keeps, unchanged, every entry
\* with now - lastActivity <= SESSION_TIMEOUT_MS.
IdleEviction ==
    [][lastTick' # lastTick
       => /\ \A sid \in DOMAIN transports' \cup DOMAIN sessionLastActivity' :
               /\ sid \in DOMAIN sessionLastActivity'
               /\ now - sessionLastActivity'[sid] <= SESSION_TIMEOUT_MS
          /\ \A sid \in DOMAIN sessionLastActivity :
               now - sessionLastActivity[sid] <= SESSION_TIMEOUT_MS
               => /\ sid \in DOMAIN sessionLastActivity'
                  /\ sessionLastActivity'[sid] = sessionLastActivity[sid]
                  /\ sid \in DOMAIN transports'
                  /\ transports'[sid] = transports[sid]]_vars

\* C5 witness: a run of the cleanup evicted one session and kept another
\* whose idle time was exactly the timeout
IdleEvictionWitness ==
    /\ \E sid \in DOMAIN gone : gone[sid] = "evicted"
    /\ \E sid \in DOMAIN sessionLastActivity :
          lastTick - sessionLastActivity[sid] = SESSION_TIMEOUT_MS

\* C6 (as claimed): the transport of an evicted session is closed
EvictedBindingsClosed ==
    \A b \in Transports : Evicted(bindings[b].sessionId) => ~bindings[b].open

\* C7: a POST on the endpoint whose body has grown past the limit is
\* answered 413, its body has not been parsed and it has reached no transport,
\* whatever its bytes and its session header.
OversizedRejected ==
    \A i \in Slots :
        requests[i].totalSize > MAX_REQUEST_BODY_SIZE
        => /\ requests[i].pc = "done"
           /\ requests[i].status = 413
           /\ ~requests[i].parsed
           /\ requests[i].target = NoTransport
           /\ requests[i].created = NoTransport

\* C7 witness: an oversized body of valid JSON on a live session
OversizedRejectedWitness ==
    \E i \in Slots :
        /\ requests[i].totalSize > MAX_REQUEST_BODY_SIZE
        /\ requests[i].body = "other"
        /\ requests[i].hdr \in DOMAIN transports

\* C8: no step of a handler that ends in 404, 413 or 400 changes the
\* registry: neither the step that answers nor the body reads before it.
ClientErrorsLeaveRegistry ==
    [][\A i \in Slots :
        (requests'[i] # requests[i]
           /\ (requests'[i].pc = "body" \/ requests'[i].status \in { 404, 413, 400 }))
        => registry' = registry]_vars

\* C8 witness: malformed JSON was answered 400 on a live session whose last
\* activity is in the past
ClientErrorsLeaveRegistryWitness ==
    \E i \in Slots :
        /\ requests[i].error = "Invalid JSON"
        /\ requests[i].hdr \in DOMAIN sessionLastActivity
        /\ sessionLastActivity[requests[i].hdr] < now

\* C9: a request whose path is not /mcp is answered 404 at once: no body
\* chunk is read, nothing is parsed, no transport is looked up or created.
UnknownPath404 ==
    \A i \in Slots :
        (requests[i].pc # "idle" /\ pathname(requests[i].url) # "/mcp")
        => /\ requests[i].pc = "done"
           /\ requests[i].status = 404
           /\ requests[i].nchunks = 0
           /\ ~requests[i].parsed
           /\ requests[i].target = NoTransport
           /\ requests[i].created = NoTransport

\* C9 witness: a POST bearing a live session id on another path
UnknownPath404Witness ==
    \E i \in Slots :
        /\ requests[i].status = 404
        /\ requests[i].method = "POST"
        /\ requests[i].hdr \in DOMAIN transports

\* C10: when the session resolution of a request finds no session, a POST
\* is handed to a transport constructed for it, a GET or DELETE is answered
\* 400 (session id required) and any other method 405, the last two without
\* constructing a transport.
MethodDecidesOutcome ==
    [][\A i \in Slots :
        (ResolutionStep(i) /\ requests'[i].hdr \notin DOMAIN transports)
        => LET r == requests'[i]
           IN  CASE r.method = "POST" ->
                      /\ r.pc = "connect"
                      /\ r.created = Len(bindings) + 1
                      /\ r.target = r.created
                      /\ bindings' = Append(bindings, NewTransport)
                 [] r.method \in { "GET", "DELETE" } ->
                      /\ r.status = 400
                      /\ r.error = "Session ID required"
                      /\ r.target = NoTransport
                      /\ bindings' = bindings
                 [] OTHER ->
                      /\ r.status = 405
                      /\ r.target = NoTransport
                      /\ bindings' = bindings]_vars

\* C10 witness: without a session, a DELETE was answered 400 and a PUT 405
MethodDecidesOutcomeWitness ==
    \E i, j \in Slots :
        /\ requests[i].method = "DELETE"
        /\ requests[i].error = "Session ID required"
        /\ requests[j].status = 405

\* C20: the step that routes a request to an existing session sets the
\* lastActivity of that session to the current time, before the transport is
\* given the payload; and a run of the cleanup at a time <= t + the session
\* timeout evicts no session that had a request routed at time t.
TouchKeepsSessionAlive ==
    [][ /\ \A i \in Slots :
             (requests[i].pc # "routed" /\ requests'[i].pc = "routed") =>
                 /\ requests'[i].hdr \in DOMAIN sessionLastActivity'
                 /\ sessionLastActivity'[requests'[i].hdr] = now
                 /\ requests'[i].routedAt = now
                 /\ requests'[i].status = 0
        /\ lastTick' # lastTick =>
             \A i \in Slots :
                 ( /\ RoutedToSession(requests[i])
                   /\ now <= requests[i].routedAt + SESSION_TIMEOUT_MS
                   /\ requests[i].hdr \in DOMAIN sessionLastActivity ) =>
                     /\ requests[i].hdr \in DOMAIN sessionLastActivity'
                     /\ requests[i].hdr \in DOMAIN transports' ]_vars

\* C20 witness: a cleanup ran exactly the session timeout after a request
\* was routed to a session, and the session is still registered
TouchKeepsSessionAliveWitness ==
    \E i \in Slots :
        /\ RoutedToSession(requests[i])
        /\ lastTick = requests[i].routedAt + SESSION_TIMEOUT_MS
        /\ requests[i].hdr \in DOMAIN transports
        /\ sessionLastActivity[requests[i].hdr] = requests[i].routedAt

\* the registry holds an entry for sid, in either map
Registered(sid) == sid \in DOMAIN transports \/ sid \in DOMAIN sessionLastActivity
\* sid has been idle for longer than the session timeout
Idle(sid) ==
    /\ sid \in DOMAIN sessionLastActivity
    /\ Expired(sessionLastActivity[sid], now)
\* a request was routed to sid after it had gone idle
Refreshed(sid) ==
    /\ sid \in DOMAIN sessionLastActivity
    /\ ~ Expired(sessionLastActivity[sid], now)
TickDue == now - lastTick >= CLEANUP_INTERVAL_MS

\* C21: with the cleanup run whenever it is due, a registered session that
\* has been idle for longer than the session timeout when a cleanup is due is
\* eventually absent from both maps, unless a request is routed to it first;
\* a run of the cleanup leaves no entry idle for longer than the timeout in
\* either map; and a cleanup that runs exactly one cleanup interval after the
\* previous one removes only sessions idle for at most the session timeout
\* plus one cleanup interval.
EventualReclamation ==
    /\ \A sid \in Slots :
          (Idle(sid) /\ TickDue) ~> (~ Registered(sid) \/ Refreshed(sid))
    /\ [][ lastTick' # lastTick =>
             /\ \A sid \in DOMAIN sessionLastActivity :
                    Expired(sessionLastActivity[sid], now) =>
                        /\ sid \notin DOMAIN sessionLastActivity'
                        /\ sid \notin DOMAIN transports'
             /\ now - lastTick = CLEANUP_INTERVAL_MS =>
                    \A sid \in DOMAIN sessionLastActivity \ DOMAIN sessionLastActivity' :
                        now - sessionLastActivity[sid] <=
                            SESSION_TIMEOUT_MS + CLEANUP_INTERVAL_MS ]_vars

\* C21 witness: a session registered at time 0 survived the cleanup run at
\* the session timeout and was evicted by the next one, a cleanup interval
\* later
EventualReclamationWitness ==
    \E sid \in Slots :
        /\ Evicted(sid)
        /\ ~ Registered(sid)
        /\ lastTick = SESSION_TIMEOUT_MS + CLEANUP_INTERVAL_MS
        /\ now = lastTick

\* C22: while a request routed to a session is suspended in the delivery and
\* the cleanup has evicted that session, the session id is in neither map and
\* no step puts it back; the steps that end the request (the delivery
\* returning, throwing, or the stale transport closing itself) leave both maps
\* as they are, and the outcome is the one the stale transport gives.
EvictionRaceLeavesRegistry ==
    [][ \A i \in Slots :
          ( /\ requests[i].pc = "routed"
            /\ Evicted(requests[i].hdr) ) =>
              /\ requests[i].hdr \notin DOMAIN transports
              /\ requests[i].hdr \notin DOMAIN sessionLastActivity
              /\ requests[i].hdr \notin DOMAIN transports'
              /\ requests[i].hdr \notin DOMAIN sessionLastActivity'
              /\ requests'[i] # requests[i] =>
                    /\ transports' = transports
                    /\ sessionLastActivity' = sessionLastActivity
                    /\ requests'[i].pc = "done"
                    /\ requests'[i].status \in { 0, 200 }
                    /\ requests'[i].target = requests[i].target ]_vars

\* C22 witness: a DELETE was routed to a session, the cleanup evicted the
\* session while the delivery was suspended, and the stale transport then
\* closed itself and answered; the id is in neither map
EvictionRaceLeavesRegistryWitness ==
    \E i \in Slots :
        /\ requests[i].pc = "done"
        /\ requests[i].method = "DELETE"
        /\ RoutedToSession(requests[i])
        /\ Evicted(requests[i].hdr)
        /\ ~ bindings[requests[i].target].open
        /\ ~ Registered(requests[i].hdr)

\* C23: every entry of the transports map was put there by the
\* session-initialized callback of the transport it maps to: a step that adds a
\* key is the step in which that transport becomes initialized and draws that
\* key as its session id; a transport that is still pending is the value of no
\* key; and the steps of an initiating POST whose payload is not the
\* initialize message (construction, connect, handling, rollback) leave both
\* maps as they are.
IndexedOnlyByCallback ==
    [][ /\ \A sid \in DOMAIN transports' :
             /\ bindings'[transports'[sid]].initialized
             /\ bindings'[transports'[sid]].sessionId = sid
        /\ \A sid \in DOMAIN transports' \ DOMAIN transports :
             /\ transports'[sid] \in Transports
             /\ ~ bindings[transports'[sid]].initialized
             /\ sid \in DOMAIN sessionLastActivity'
        /\ \A b \in Transports :
             ~ bindings[b].initialized => b \notin Range(transports)
        /\ \A i \in Slots :
             /\ ( /\ requests[i].created = NoTransport
                  /\ requests'[i].created # NoTransport ) =>
                    /\ ~ bindings'[requests'[i].created].initialized
                    /\ transports' = transports
                    /\ sessionLastActivity' = sessionLastActivity
             /\ ( /\ requests[i].created # NoTransport
                  /\ requests[i].body # "init"
                  /\ requests'[i] # requests[i] ) =>
                    /\ transports' = transports
                    /\ sessionLastActivity' = sessionLastActivity ]_vars

\* C23 witness: while one session is registered, an initiating POST whose
\* payload is not the initialize message has been answered, after its
\* handling failed or returned; its transport is still pending and the
\* registry holds the one session
IndexedOnlyByCallbackWitness ==
    \E i \in Slots :
        /\ requests[i].created # NoTransport
        /\ requests[i].body = "other"
        /\ requests[i].pc = "done"
        /\ ~ bindings[requests[i].created].initialized
        /\ Cardinality(DOMAIN transports) = 1

\* C24: the step in which a transport closes its session leaves the id of
\* that session in neither map and every other entry as it was; when the id
\* was already in neither map (after an eviction, a rollback or an earlier
\* close) the step leaves both maps as they are; and the id of a closed
\* transport is in neither map ever after.
CloseFinalIdempotent ==
    [][ \A b \in Transports :
          LET sid == bindings[b].sessionId
          IN  /\ (bindings[b].open /\ ~ bindings'[b].open) =>
                    /\ transports' = Without(transports, { sid })
                    /\ sessionLastActivity' = Without(sessionLastActivity, { sid })
                    /\ sid \notin DOMAIN transports'
                    /\ sid \notin DOMAIN sessionLastActivity'
                    /\ ~ Registered(sid) =>
                          /\ transports' = transports
                          /\ sessionLastActivity' = sessionLastActivity
              /\ ~ bindings[b].open =>
                    /\ ~ bindings'[b].open
                    /\ sid \notin DOMAIN transports'
                    /\ sid \notin DOMAIN sessionLastActivity' ]_vars

\* C24 witness: a transport closed its session after the catch block of its
\* initiating POST had already removed the session
CloseFinalIdempotentWitness ==
    \E b \in Transports :
        /\ ~ bindings[b].open
        /\ bindings[b].sessionId \in DOMAIN gone
        /\ gone[bindings[b].sessionId] = "rollback"

\* C25: every key of either map is an id the generator has returned, and the
\* transport it maps to is the one that drew it; a step that adds a key adds
\* the id the generator returns in that step, to both maps, and no request
\* received so far carries that id in its mcp-session-id header: the header
\* of a request is only ever looked up, never inserted.
KeysAreGeneratedIds ==
    [][ /\ DOMAIN transports' \subseteq 1 .. issued'
        /\ DOMAIN sessionLastActivity' \subseteq 1 .. issued'
        /\ \A sid \in DOMAIN transports' :
             bindings'[transports'[sid]].sessionId = sid
        /\ \A sid \in (DOMAIN transports' \ DOMAIN transports) \cup
                       (DOMAIN sessionLastActivity' \ DOMAIN sessionLastActivity) :
             /\ sid = sessionIdGenerator
             /\ issued' = sid
             /\ sid \in DOMAIN transports' \cap DOMAIN sessionLastActivity'
             /\ \A i \in Slots :
                    requests[i].hdr # sid /\ requests'[i].hdr # sid ]_vars

\* C25 witness: an initiating POST that presented an id the server never
\* issued completed a handshake; the new session is registered under the id
\* its transport drew and the presented id is a key of neither map
KeysAreGeneratedIdsWitness ==
    \E i \in Slots :
        /\ requests[i].hdr = UnknownId
        /\ requests[i].created # NoTransport
        /\ bindings[requests[i].created].initialized
        /\ bindings[requests[i].created].sessionId \in DOMAIN transports
        /\ UnknownId \notin DOMAIN transports \cup DOMAIN sessionLastActivity

\* C26: a request is answered 413 exactly when the bytes it has delivered
\* exceed the limit; a body of at most the limit, the limit itself included,
\* is buffered whole and, once it has ended, parsed; the chunk that crosses
\* the limit is not buffered, so the buffered bytes never exceed the limit.
BodyLimitExact ==
    \A i \in Slots :
        LET r == requests[i]
        IN  /\ (r.status = 413) <=> (r.totalSize > MAX_REQUEST_BODY_SIZE)
            /\ (r.error = "Request body too large") <=> (r.status = 413)
            /\ r.buffered <= MAX_REQUEST_BODY_SIZE
            /\ r.totalSize <= MAX_REQUEST_BODY_SIZE => r.buffered = r.totalSize
            /\ r.totalSize > MAX_REQUEST_BODY_SIZE =>
                  /\ r.buffered < r.totalSize
                  /\ ~ r.parsed
            /\ r.parsed => r.buffered = r.totalSize
            /\ (r.method = "POST" /\ r.pc \in { "routed", "connect", "handle" }) =>
                  r.parsed

\* C26 witness: a body of exactly the limit was accepted, parsed and handed
\* to a transport, and a body one byte longer was answered 413 with exactly
\* the limit buffered
BodyLimitExactWitness ==
    \E i, j \in Slots :
        /\ requests[i].totalSize = MAX_REQUEST_BODY_SIZE
        /\ requests[i].parsed
        /\ requests[i].target # NoTransport
        /\ requests[j].totalSize = MAX_REQUEST_BODY_SIZE + 1
        /\ requests[j].buffered = MAX_REQUEST_BODY_SIZE
        /\ requests[j].status = 413

\* C27: the step in which the catch block of an initiating POST answers 500
\* removes from both maps exactly the ids that map to the transport of that
\* POST, and leaves the transport and the lastActivity of every other id as
\* they were, whatever sessions were registered or removed since the
\* transport was constructed.
RollbackFrame ==
    [][ \A i \in Slots :
          (requests[i].status # 500 /\ requests'[i].status = 500) =>
              LET failed == requests[i].created
                  removed == { sid \in DOMAIN transports : transports[sid] = failed }
              IN  /\ failed # NoTransport
                  /\ DOMAIN transports' = DOMAIN transports \ removed
                  /\ DOMAIN sessionLastActivity' =
                         DOMAIN sessionLastActivity \ removed
                  /\ \A sid \in DOMAIN transports' :
                         transports'[sid] = transports[sid]
                  /\ \A sid \in DOMAIN sessionLastActivity' :
                         sessionLastActivity'[sid] = sessionLastActivity[sid]
                  /\ failed \notin Range(transports') ]_vars

\* C27 witness: a second initiating POST constructed its transport after the
\* first and registered its session before the first did; the handling of
\* the first then failed, its session was removed by the catch block, and the
\* session of the second is still registered with the timestamp of an
\* earlier time
RollbackFrameWitness ==
    \E i, j \in Slots :
        /\ requests[i].status = 500
        /\ bindings[requests[i].created].initialized
        /\ requests[j].created > requests[i].created
        /\ bindings[requests[j].created].initialized
        /\ bindings[requests[j].created].sessionId <
               bindings[requests[i].created].sessionId
        /\ bindings[requests[j].created].sessionId \in DOMAIN transports
        /\ sessionLastActivity[bindings[requests[j].created].sessionId] < now
        /\ ~ Registered(bindings[requests[i].created].sessionId)

\* C34: in every reachable state the transports map and the
\* sessionLastActivity map have the same set of session ids, whatever the
\* interleaving of requests, closes, rollbacks and cleanup runs.
RegistryKeySetsAgree == DOMAIN transports = DOMAIN sessionLastActivity

\* C34 witness: after a cleanup evicted one session, another session is
\* registered, with its id in both maps, while a request is suspended
RegistryKeySetsAgreeWitness ==
    /\ \E sid \in DOMAIN gone : gone[sid] = "evicted"
    /\ \E sid \in DOMAIN transports : sid \in DOMAIN sessionLastActivity
    /\ \E i \in Slots : requests[i].pc \in { "handle", "routed" }

\* the requests that constructed a transport, and the step of such a request
Initiating(rs) == { i \in Slots : rs[i].created # NoTransport }
StepOf(i) ==
    \/ requests'[i] # requests[i]
    \/ /\ requests[i].created # NoTransport
       /\ bindings'[requests[i].created] # bindings[requests[i].created]

\* C35: two initiating POSTs have two transports; once both transports are
\* initialized their session ids differ; no step of one of them (body,
\* construction, connect, handshake, answer, failure and rollback) changes,
\* removes or overwrites the entry of the other; and when both have been
\* answered 200 after their handshakes and no session has been removed, the
\* registry holds both ids, each mapped to its own transport.
InitiatingPostsIndependent ==
    [][ \A i, j \in Initiating(requests') :
          i # j =>
            LET a == requests'[i].created
                b == requests'[j].created
            IN  /\ a # b
                /\ (bindings'[a].initialized /\ bindings'[b].initialized) =>
                      bindings'[a].sessionId # bindings'[b].sessionId
                /\ StepOf(i) =>
                      \A sid \in DOMAIN transports :
                          transports[sid] = b =>
                              /\ sid \in DOMAIN transports'
                              /\ transports'[sid] = b
                              /\ sid \in DOMAIN sessionLastActivity'
                              /\ sessionLastActivity'[sid] = sessionLastActivity[sid]
                /\ ( /\ requests'[i].status = 200
                     /\ requests'[j].status = 200
                     /\ bindings'[a].initialized
                     /\ bindings'[b].initialized
                     /\ gone' = EmptyMap ) =>
                      /\ bindings'[a].sessionId \in DOMAIN transports'
                      /\ bindings'[b].sessionId \in DOMAIN transports'
                      /\ transports'[bindings'[a].sessionId] = a
                      /\ transports'[bindings'[b].sessionId] = b
                      /\ Cardinality(DOMAIN transports') = 2 ]_vars

\* C35 witness: the second POST constructed its transport after the first
\* and completed its handshake before it; both were answered 200 and the
\* registry holds the two sessions
InitiatingPostsIndependentWitness ==
    /\ Initiating(requests) = { 1, 2 }
    /\ requests[1].status = 200
    /\ requests[2].status = 200
    /\ requests[1].created < requests[2].created
    /\ bindings[requests[1].created].initialized
    /\ bindings[requests[2].created].initialized
    /\ bindings[requests[2].created].sessionId < bindings[requests[1].created].sessionId
    /\ Cardinality(DOMAIN transports) = 2

(* ================== properties of the backend client ================== *)
Started == { c \in Calls : calls[c].pc # "idle" }
FetchesBy(cs) == { f \in 1 .. Len(fetchLog) : fetchLog[f].by \in cs }
WithinTtl(a, b) ==
    /\ calls[b].startedAt - calls[a].startedAt < CONFIG_CACHE_TTL_MS
    /\ calls[a].startedAt - calls[b].startedAt < CONFIG_CACHE_TTL_MS

\* C11 as stated: any two calls of getEngines/getCategories made on the same
\* client within the TTL window issue at most one backend config fetch in
\* total.
TwoCallsOneFetch ==
    \A a, b \in Started :
        (a # b /\ WithinTtl(a, b)) => Cardinality(FetchesBy({ a, b })) <= 1

\* C11, amended: on the caching client, a call that starts while the slot
\* holds the snapshot fetched by an earlier call, less than the TTL after that
\* earlier call started, issues no fetch and is given that snapshot: the two
\* calls issue exactly one backend config fetch in total.
SequentialCallsOneFetch ==
    \A a, b \in Started :
        ( /\ a # b
          /\ calls[a].fetch # NoFetch
          /\ calls[b].seen = calls[a].fetch
          /\ calls[b].startedAt - calls[a].startedAt < CONFIG_CACHE_TTL_MS )
        => /\ Caching
           /\ calls[b].fetch = NoFetch
           /\ calls[b].snapshot.fetch = calls[a].fetch
           /\ Cardinality(FetchesBy({ a, b })) = 1

SequentialCallsOneFetchWitness ==
    /\ Started = { 1, 2 }
    /\ calls[1].fetch # NoFetch
    /\ calls[2].seen = calls[1].fetch
    /\ calls[2].startedAt - calls[1].startedAt = CONFIG_CACHE_TTL_MS - 1
    /\ calls[2].pc = "returned"
    /\ Len(fetchLog) = 1

\* C12: a call that observes an absent or expired cache issues exactly one
\* new backend config fetch, and when that fetch succeeds the cache slot is
\* replaced by the fetched snapshot in the step that returns it.
Missed(call) == call.observed \in { "absent", "expired" }

MissFetchesAndStores ==
    /\ [](\A c \in Started :
            Missed(calls[c]) =>
                /\ FetchesBy({ c }) = { calls[c].fetch }
                /\ calls[c].fetch # NoFetch)
    /\ [][ \A c \in Calls :
             /\ (calls[c].pc = "idle" /\ Missed(calls'[c])) =>
                    /\ calls'[c].pc = "fetching"
                    /\ fetchLog' = Append(fetchLog,
                          [ issuedAt |-> now, by |-> c, outcome |-> "pending" ])
             /\ ( /\ calls[c].pc = "fetching"
                  /\ Missed(calls[c])
                  /\ calls'[c].pc = "returned"
                  /\ calls'[c].snapshot # Null ) =>
                    /\ configCache' = calls'[c].snapshot
                    /\ configCache'.fetch = calls[c].fetch
                    /\ configCache'.config \in Configs
                    /\ Len(fetchLog') = Len(fetchLog) ]_vars

MissFetchesAndStoresWitness ==
    \E c \in Started :
        /\ calls[c].observed = "expired"
        /\ calls[c].pc = "returned"
        /\ calls[c].snapshot # Null
        /\ configCache = calls[c].snapshot
        /\ Len(fetchLog) = 2

\* C13: whenever fetchConfig returns the cached snapshot without fetching,
\* the time elapsed since the fetch of that snapshot was issued is within the
\* TTL, in every interleaving of the calls.
CachedNeverStale ==
    \A c \in Started :
        calls[c].observed = "fresh" =>
            /\ calls[c].fetch = NoFetch
            /\ calls[c].snapshot # Null
            /\ calls[c].snapshot.fetch \in 1 .. Len(fetchLog)
            /\ calls[c].startedAt - fetchLog[calls[c].snapshot.fetch].issuedAt
                  <= CONFIG_CACHE_TTL_MS

CachedNeverStaleWitness ==
    \E c \in Started :
        /\ calls[c].observed = "fresh"
        /\ calls[c].startedAt - fetchLog[calls[c].snapshot.fetch].issuedAt
              = CONFIG_CACHE_TTL_MS - 1

(* ===================== properties of the two tools ===================== *)
OptionalParams ==
    { "categories", "engines", "language", "pageno", "time_range", "safesearch" }

\* a parameter was supplied and is not empty: a list with an element, a
\* string with a character, any number
SuppliedNonEmpty(params, field) ==
    /\ Has(params, field)
    /\ field \in { "categories", "engines" } => params[field] # << >>
    /\ field \in { "language", "time_range" } => params[field] # ""

QueryKeys(request) ==
    { request.searchParams[i][1] : i \in 1 .. Len(request.searchParams) }

\* C14 as stated: for every valid argument set the query built by search
\* holds q (the query) and format=json, and holds each optional parameter
\* if and only if it was supplied and is not empty.
QueryHoldsSuppliedParams ==
    search.pc \in { "fetching", "returned" } =>
        /\ << "q", search.args.query >> \in Range(search.request.searchParams)
        /\ << "format", "json" >> \in Range(search.request.searchParams)
        /\ \A field \in OptionalParams :
              field \in QueryKeys(search.request)
                  <=> SuppliedNonEmpty(search.args, field)

ToolCalls == { c \in Started : calls[c].op = "get_engines" }
FetchFailed(c) ==
    calls[c].fetch # NoFetch /\ fetchLog[calls[c].fetch].outcome \in FetchFailures
TextOf(envelope) == envelope.content[1].text
IsErrorEnvelope(envelope, message) ==
    /\ Has(envelope, "isError")
    /\ envelope.isError = TRUE
    /\ TextOf(envelope) = << message >>

\* C15: the search and get_engines handlers never raise: a failure of the
\* backend (network error or non-success status) is returned as a result
\* with isError true and a message, and a successful backend call yields a
\* result without isError.
HandlersNeverRaise ==
    /\ search.pc # "thrown"
    /\ search.pc = "returned" =>
          IF search.backend \in FetchFailures
          THEN IsErrorEnvelope(search.envelope,
                  "Error performing search: " \o SearchError(search.backend))
          ELSE /\ ~Has(search.envelope, "isError")
               /\ Has(search.envelope, "content")
    /\ \A c \in ToolCalls :
          /\ calls[c].pc # "thrown"
          /\ calls[c].pc = "returned" =>
                IF FetchFailed(c)
                THEN IsErrorEnvelope(calls[c].envelope,
                        "Error fetching engines: "
                            \o FetchError(fetchLog[calls[c].fetch].outcome))
                ELSE /\ ~Has(calls[c].envelope, "isError")
                     /\ Has(calls[c].envelope, "content")

HandlersNeverRaiseWitness ==
    /\ search.pc = "returned"
    /\ search.backend = "network"
    /\ \E c, d \in ToolCalls :
          /\ calls[c].pc = "returned" /\ FetchFailed(c)
          /\ fetchLog[calls[c].fetch].outcome = "status"
          /\ calls[d].pc = "returned" /\ calls[d].snapshot # Null

\* C16 as stated: the text of the search handler for zero results is
\* exactly "No results found." and the text of the get_engines handler for
\* zero engines is exactly "No engines available.".
EmptyInputsTexts ==
    /\ (search.pc = "returned" /\ search.backend = "ok" /\ search.results = << >>)
          => TextOf(search.envelope) = << "No results found." >>
    /\ \A c \in ToolCalls :
          (calls[c].pc = "returned" /\ calls[c].snapshot # Null
              /\ calls[c].value = << >>)
          => TextOf(calls[c].envelope) = << "No engines available." >>

\* the lines the claim lists for one result, and for the whole answer
ListedResult(result, i) ==
    << ToString(i) \o ". " \o result.title, "   URL: " \o result.url >>
    \o (IF Has(result, "content") THEN << "   " \o result.content >> ELSE << >>)
    \o (IF Has(result, "engine")
        THEN << "   Engine: " \o result.engine >> ELSE << >>)
    \o (IF Has(result, "publishedDate")
        THEN << "   Published: " \o result.publishedDate >> ELSE << >>)

Listing(results) ==
    << "Found " \o ToString(Len(results)) \o " results:" >>
    \o Flatten([ i \in 1 .. Len(results) |-> ListedResult(results[i], i) ])

\* C17 as stated: for N > 0 results the text starts with "Found N results:"
\* and lists the results in the backend's order, the i-th as "i. <title>",
\* then "URL: <url>", then the snippet, "Engine:" and "Published:" lines of
\* the fields the result has, and no others.
ResultsListed ==
    (search.pc = "returned" /\ search.backend = "ok" /\ Len(search.results) > 0)
        => SelectSeq(TextOf(search.envelope), LAMBDA line : line # "")
              = Listing(search.results)

(* ====================== properties of the start ======================== *)
\* C18 as stated: with TRANSPORT_MODE unset the server starts the HTTP
\* transport, and the stdio transport is started only when TRANSPORT_MODE
\* is "stdio".
DefaultTransportHttp ==
    boot.pc = "running" /\ Has(boot, "env") =>
        /\ ~Has(boot.env, "TRANSPORT_MODE") => boot.transport = "http"
        /\ boot.transport = "stdio" =>
              (Has(boot.env, "TRANSPORT_MODE") /\ boot.env.TRANSPORT_MODE = "stdio")

\* C19: getValidatedSearxngUrl never throws; it returns the value of the
\* environment when that parses as a URL with the protocol http or https,
\* and the default when the variable is unset, unparsable or of another
\* protocol.
AcceptedUrl(env) ==
    /\ Has(env, "SEARXNG_URL")
    /\ ParseUrl(env.SEARXNG_URL).ok
    /\ ParseUrl(env.SEARXNG_URL).protocol \in { "http:", "https:" }

UrlValidatedOrDefault ==
    Has(boot, "env") =>
        /\ boot.pc # "crashed"
        /\ boot.pc \in { "loaded", "running" } =>
              boot.SEARXNG_URL = IF AcceptedUrl(boot.env)
                                 THEN boot.env.SEARXNG_URL
                                 ELSE DEFAULT_SEARXNG_URL

UrlValidatedOrDefaultWitness ==
    /\ Has(boot, "env")
    /\ boot.pc = "running"
    /\ Has(boot.env, "SEARXNG_URL")
    /\ boot.env.SEARXNG_URL = "ftp://searx.local"
    /\ boot.SEARXNG_URL = DEFAULT_SEARXNG_URL

\* the calls that found the cache absent or expired and have been answered
\* by the backend
Fetched == { c \in Started : Missed(calls[c]) /\ calls[c].snapshot # Null }

\* C28: on the caching client, a call that finds the cache absent or expired
\* issues a fetch of its own, also while the fetch of another call is
\* pending; the step in which the backend answers a call stores the snapshot
\* of that call together with the time that call read at its start, and no
\* other step writes the slot: once every call that missed has been answered,
\* the slot holds the snapshot of one of them with the start time of that
\* same call.
ConcurrentMissesOwnFetch ==
    [][ Caching =>
          /\ \A c \in Calls :
                /\ ( /\ calls[c].pc = "idle"
                     /\ calls'[c].pc # "idle"
                     /\ Missed(calls'[c]) ) =>
                       /\ calls'[c].pc = "fetching"
                       /\ Len(fetchLog') = Len(fetchLog) + 1
                       /\ calls'[c].fetch = Len(fetchLog')
                       /\ fetchLog'[calls'[c].fetch].by = c
                       /\ \A d \in Calls \ { c } : calls'[d].fetch # calls'[c].fetch
                /\ (calls[c].pc = "fetching" /\ calls'[c].snapshot # Null) =>
                       /\ configCache' = calls'[c].snapshot
                       /\ configCache'.fetch = calls[c].fetch
                       /\ configCacheTime' = calls[c].startedAt
          /\ (configCache' # configCache \/ configCacheTime' # configCacheTime) =>
                \E c \in Calls : calls[c].pc = "fetching" /\ calls'[c].snapshot # Null
          /\ ( /\ Fetched' # {}
               /\ \A c \in Calls : calls'[c].pc # "fetching" ) =>
                \E c \in Fetched' :
                    /\ configCache' = calls'[c].snapshot
                    /\ configCacheTime' = calls'[c].startedAt ]_vars

\* C28 witness: the second call started later than the first and while the
\* fetch of the first was pending, both found the cache absent and were
\* answered with different configurations, the first one last: the slot holds
\* the snapshot and the start time of the first call
ConcurrentMissesOwnFetchWitness ==
    /\ Caching
    /\ Fetched = { 1, 2 }
    /\ calls[1].observed = "absent"
    /\ calls[2].observed = "absent"
    /\ calls[1].fetch # calls[2].fetch
    /\ calls[1].startedAt < calls[2].startedAt
    /\ calls[1].snapshot.config # calls[2].snapshot.config
    /\ configCache = calls[1].snapshot
    /\ configCacheTime = calls[1].startedAt
    /\ now > calls[2].startedAt

(* ============ properties of the tools without a bound client ============ *)
\* the calls that were given an engineUrl other than the empty string
WithUrl == { c \in Started : ~ NoEngineUrl(calls[c].args) }

\* C29: without a bound client, every call with an engineUrl runs on a
\* client built for it from that URL, whose cache is empty when the call
\* starts: a get_engines call finds no snapshot and issues one /config
\* request of its own on its base URL, a search call one /search request,
\* whatever calls were made before with the same engineUrl and however
\* recently; the cache of a client holds only what its own call fetched, and
\* no slot is shared.
FreshClientPerCall ==
    /\ configCache = Null
    /\ \A c \in WithUrl :
          /\ calls[c].client.baseUrl = StripTrailingSlashes(calls[c].args.engineUrl)
          /\ calls[c].client.configCache.fetch \in { NoFetch, calls[c].fetch }
          /\ calls[c].fetch # NoFetch
          /\ FetchesBy({ c }) = { calls[c].fetch }
          /\ fetchLog[calls[c].fetch].base = calls[c].client.baseUrl
          /\ fetchLog[calls[c].fetch].issuedAt = calls[c].startedAt
          /\ calls[c].op = "get_engines" =>
                /\ calls[c].observed = "absent"
                /\ fetchLog[calls[c].fetch].path = "/config"
          /\ calls[c].op = "search" => fetchLog[calls[c].fetch].path = "/search"
    /\ \A c, d \in WithUrl : c # d => calls[c].fetch # calls[d].fetch

\* C29 witness: a get_engines call was answered, and a second one with the
\* same engineUrl, started later and within the TTL of the first, issued a
\* /config request of its own and was answered too
FreshClientPerCallWitness ==
    /\ WithUrl = { 1, 2 }
    /\ calls[1].op = "get_engines"
    /\ calls[2].op = "get_engines"
    /\ calls[1].args.engineUrl = calls[2].args.engineUrl
    /\ calls[1].snapshot # Null
    /\ calls[2].snapshot # Null
    /\ calls[2].observed = "absent"
    /\ calls[1].startedAt < calls[2].startedAt
    /\ calls[2].startedAt - calls[1].startedAt < CONFIG_CACHE_TTL_MS
    /\ Len(fetchLog) = 2
    /\ fetchLog[2].issuedAt > fetchLog[1].issuedAt

\* C30 (as claimed): a call of search or of get_engines that has no
\* engineUrl is answered with an error result (isError true), sends no
\* request to the backend and throws nothing out of its handler.
MissingUrlIsHandlerError ==
    \A c \in Started :
        ~ Has(calls[c].args, "engineUrl") =>
            /\ calls[c].pc = "returned"
            /\ Has(calls[c].envelope, "isError")
            /\ calls[c].envelope.isError = TRUE
            /\ calls[c].fetch = NoFetch
            /\ FetchesBy({ c }) = {}

(* ================= properties of the get_engines text ================== *)
\* the get_engines calls that were answered with a list of engines
Listed ==
    { c \in ToolCalls :
        /\ calls[c].pc = "returned"
        /\ calls[c].snapshot # Null
        /\ calls[c].value # << >> }
CategoriesOf(engines) ==
    UNION { Range(engines[i].categories) : i \in 1 .. Len(engines) }
HeadingOf(category) == "## " \o Capitalize(category)
\* the heading lines of a text, in the order of the text
HeadingsIn(text, categories) ==
    SelectSeq(text, LAMBDA line : \E k \in categories : line = HeadingOf(k))
\* a is before b in the lexicographic order of the names themselves
NameBefore(a, b) == UnitsBefore(CodeUnits(a), CodeUnits(b))

\* C31 as stated: the text of get_engines has one heading for each distinct
\* category of the engines, and the headings follow each other in the
\* lexicographic order of the category names, also when one name is a prefix
\* of another or holds a space ("social" before "social media").
HeadingsLexicographic ==
    \A c \in Listed :
        LET categories == CategoriesOf(calls[c].value)
            heads == HeadingsIn(TextOf(calls[c].envelope), categories)
        IN  /\ Len(heads) = Cardinality(categories)
            /\ Range(heads) = { HeadingOf(k) : k \in categories }
            /\ \A i, j \in 1 .. Len(heads) :
                  i < j =>
                    \E a, b \in categories :
                        /\ heads[i] = HeadingOf(a)
                        /\ heads[j] = HeadingOf(b)
                        /\ NameBefore(a, b)

\* the lines of a text between the heading of a category and the next empty
\* line (or the end of the text)
SectionOf(text, category) ==
    LET p == CHOOSE i \in 1 .. Len(text) : text[i] = HeadingOf(category)
        rest == SubSeq(text, p + 1, Len(text))
        ends == { i \in 1 .. Len(rest) : rest[i] = "" }
    IN  IF ends = {} THEN rest
        ELSE SubSeq(rest, 1, (CHOOSE i \in ends : \A j \in ends : i <= j) - 1)
\* the line the claim gives an engine: its marker, then its name
MarkedLine(engine) ==
    "  " \o (IF engine.enabled THEN "U+2713" ELSE "U+2717") \o " " \o engine.name
\* the engines of a category, in the order of the backend
Members(engines, category) ==
    SelectSeq(engines, LAMBDA engine : category \in Range(engine.categories))

\* C32 as stated: under the heading of each category the text lists exactly
\* the engines that belong to it, each once, in the order of the backend (so
\* an engine of k categories is listed k times), and the line of every engine
\* carries the marker of its enabled flag.
EnginesListedWithMarker ==
    \A c \in Listed :
        LET engines == calls[c].value
            text == TextOf(calls[c].envelope)
        IN  \A k \in CategoriesOf(engines) :
                /\ \E i \in 1 .. Len(text) : text[i] = HeadingOf(k)
                /\ SectionOf(text, k) =
                      [ i \in 1 .. Len(Members(engines, k)) |->
                          MarkedLine(Members(engines, k)[i]) ]

(* ====================== properties of the base URL ===================== *)
\* the string a sequence of pieces stands for
RECURSIVE Concat(_)
Concat(pieces) ==
    IF pieces = << >> THEN "" ELSE Head(pieces) \o Concat(Tail(pieces))
\* the calls that sent a request to the backend
Sent == { c \in Started : calls[c].fetch # NoFetch }

\* C33 as stated: the request of a call is sent to the base URL of its
\* client followed by "/search" or "/config", where the base URL is the
\* configured URL without the slashes at its end, also when the configured
\* URL has a path prefix; and a client built from a base URL has that same
\* base URL.
RequestsUnderBaseUrl ==
    \A c \in Sent :
        LET configured == calls[c].args.engineUrl
            baseUrl == calls[c].client.baseUrl
            request == fetchLog[calls[c].fetch]
        IN  /\ baseUrl = StripTrailingSlashes(configured)
            /\ baseUrl = << >> \/ baseUrl[Len(baseUrl)] # "/"
            /\ NewClient(baseUrl).baseUrl = baseUrl
            /\ request.path = IF calls[c].op = "search" THEN "/search" ELSE "/config"
            /\ Concat(request.url) = Concat(baseUrl) \o request.path

(* ================= properties of a failed config fetch ================= *)
\* C36: the step in which the config fetch of a call fails (network error or
\* non-success status) leaves the cached snapshot and its timestamp as they
\* were, and the call ends with the error of the fetch and no snapshot:
\* getCategories throws it to its caller, and the get_engines handler, the
\* caller of getEngines, returns it as an error result.
FailedFetchLeavesCache ==
    [][ \A c \in Calls :
          ( /\ calls[c].pc = "fetching"
            /\ calls'[c].pc # "fetching"
            /\ fetchLog'[calls[c].fetch].outcome \in FetchFailures ) =>
              /\ configCache' = configCache
              /\ configCacheTime' = configCacheTime
              /\ calls'[c].snapshot = Null
              /\ calls'[c].error = FetchError(fetchLog'[calls[c].fetch].outcome)
              /\ calls'[c].op = "getCategories" => calls'[c].pc = "thrown"
              /\ calls'[c].op = "get_engines" =>
                    IsErrorEnvelope(calls'[c].envelope,
                        "Error fetching engines: " \o calls'[c].error) ]_vars

\* C36 witness: the second call found the snapshot of the first expired, its
\* fetch failed, and the slot still holds the snapshot of the first call
\* with the start time of the first call
FailedFetchLeavesCacheWitness ==
    /\ Caching
    /\ calls[1].snapshot # Null
    /\ calls[2].observed = "expired"
    /\ calls[2].seen = calls[1].fetch
    /\ FetchFailed(2)
    /\ configCache = calls[1].snapshot
    /\ configCacheTime = calls[1].startedAt
    /\ now - configCacheTime >= CONFIG_CACHE_TTL_MS

====
